---- MODULE Spec2Model ----
(***************************************************************************)
(* Model of the audit-log squashing of src/loggings/logger.py:             *)
(* begin_log_sequence / end_log_sequence (a ContextVar holding a mapping   *)
(* log_key -> list of Log ids) and Logger.create with                      *)
(* Logger.squash_log_sequence, over a store of Log and LogExtra rows.      *)
(*                                                                         *)
(* Logger.create is split at its storage steps: the call up to the query   *)
(* of line 182 and the in-memory walk (Call), the bulk delete of line 232  *)
(* (DeleteStep), log.save() and the extras of lines 155-165 (SaveStep) and *)
(* the return of line 167 (Return).  A unit of work runs these in order;   *)
(* the states between them are the crash points of the operation.          *)
(*                                                                         *)
(* Log.timestamp is auto_now_add; the clock is taken to advance between    *)
(* two inserts, so order_by("-timestamp") is a total order.                *)
(***************************************************************************)
EXTENDS Integers, Sequences, FiniteSets, Bags, TLC

\* ---------------------------------------------------------------- bounds
\* Log rows ever inserted (ids are 1..MaxLogs, never reused).
MaxLogs == 3
\* Depth of nested begin_log_sequence calls of one unit.
MaxDepth == 2

\* ---------------------------------------------------------------- inputs
ACTION_CREATE == "CREATE"
ACTION_UPDATE == "UPDATE"
ACTION_DELETE == "DELETE"
actions == {ACTION_CREATE, ACTION_UPDATE, ACTION_DELETE}

\* The units of work (execution contexts) that call the logger.
Units == {"main"}
\* log_key of the audited model instances: "{app_name}-{model_name}-{pk}".
Entities == {"app-Unit-1", "app-Unit-2"}
\* The editable fields of the audited model.
Fields == {"name"}
\* Field values: an ASCII string and a string holding a non-ASCII character
\* (written here by its name).
Values == {"a", "e-acute"}
\* user.pk of the acting users; NoUser is user_id = None.
NoUser == "None"
UserIds == {NoUser, "X"}

\* An optional value: <<>> is None, <<x>> is x.
None == <<>>
Some(x) == <<x>>
IsSome(m) == m # <<>>
Get(m) == m[1]

Range(s) == {s[i] : i \in 1..Len(s)}

\* A model instance: its log_key and its attribute values.
Objects == [key : Entities, attrs : [Fields -> Values]]
MaybeObjects == {None} \cup {Some(o) : o \in Objects}

\* ------------------------------------------------------------- JSON text
\* A JSON blob is "" (<<>>) or the text "[{...}]" of a one-element list,
\* modelled as <<[pk, fields]>> where fields maps a field name to the JSON
\* text of its value.  Two blobs are equal as strings iff they are equal here
\* (both encoders emit the keys in the same order with the same separators).

\* json.dumps (ensure_ascii=True, the default): a non-ASCII character is
\* written as a \uXXXX escape.
JsonEscape(v) == IF v = "e-acute" THEN "\\u00e9" ELSE v
\* django's JSON serializer sets ensure_ascii=False: characters are written
\* as they are.
JsonRaw(v) == v
\* json.loads reads both forms back to the same character.
JsonUnescape(t) == IF t = "\\u00e9" THEN "e-acute" ELSE t

\* serializers.serialize("json", [obj], fields=fields)
serialize(obj) ==
  << [pk |-> obj.key, fields |-> [f \in Fields |-> JsonRaw(obj.attrs[f])]] >>

\* Log.current_obj_dict: json.loads(blob)[0]
current_obj_dict(blob) ==
  [pk |-> blob[1].pk,
   fields |-> [f \in DOMAIN blob[1].fields |-> JsonUnescape(blob[1].fields[f])]]

\* json.dumps([d])
dumps(d) ==
  << [pk |-> d.pk, fields |-> [f \in DOMAIN d.fields |-> JsonEscape(d.fields[f])]] >>

\* prev_log_dict["fields"].update(curr_log_dict["fields"])
fields_update_skipped(prev_fields, curr_fields) == prev_fields
fields_update(prev_fields, curr_fields) ==
  [f \in DOMAIN prev_fields \cup DOMAIN curr_fields |->
     IF f \in DOMAIN curr_fields THEN curr_fields[f] ELSE prev_fields[f]]

\* ----------------------------------------------------------------- state
VARIABLES
  store,    \* the Log table: id -> row
  extras,   \* the LogExtra table: a bag of rows (log, field_name, field_value)
  nextId,   \* the next auto-increment Log id
  clock,    \* the clock read by auto_now_add
  heap,     \* the live mapping objects: object id -> [log_key -> list of ids]
  cv,       \* _log_sequence_context in each unit's context: None or Some(object)
  tokens,   \* the tokens each unit holds, innermost last
  pc,       \* each unit's position in Logger.create
  pend,     \* the locals of the running Logger.create: None or Some(locals)
  ret,      \* what the Logger.create of each unit is returning (pc = "done")
  ended,    \* history: the token of the end_log_sequence that was the unit's last step
  mon,      \* history: per mapping and log_key, the calls seen so far (see Observe)
  call,     \* the arguments of the running helpers.normalize_extras: None or Some(args)
  result    \* what that normalize_extras returned: None or Some(tuple)

vars == <<store, extras, nextId, clock, heap, cv, tokens, pc, pend, ret, ended, mon,
          call, result>>

EmptyMapping == [k \in Entities |-> <<>>]

\* The history of the calls made for one log_key under one mapping, as far as
\* the create-then-updates statement needs it:
\*   "empty"    no call yet,
\*   "created"  one CREATE, by `user`, without extras, and nothing else,
\*   "updated"  that CREATE and then n >= 1 changing UPDATEs by the same user
\*              without extras (n counts to 2), the last one to state `cur`,
\*   "other"    anything else.
\* `first` is the next Log id at the CREATE.  Discarded (no-change) calls are
\* not counted.
NoHistory == [phase |-> "empty", user |-> NoUser, cur |-> None, n |-> 0, first |-> 0]
OtherHistory == [phase |-> "other", user |-> NoUser, cur |-> None, n |-> 0, first |-> 0]
Observe(h, action, user, current_obj, extra_fields, next_id) ==
  IF h.phase = "empty" /\ action = ACTION_CREATE /\ extra_fields = {}
  THEN [phase |-> "created", user |-> user, cur |-> Some(current_obj.attrs),
        n |-> 0, first |-> next_id]
  ELSE IF /\ h.phase \in {"created", "updated"} /\ action = ACTION_UPDATE
          /\ user = h.user /\ extra_fields = {}
  THEN [h EXCEPT !.phase = "updated", !.cur = Some(current_obj.attrs),
                 !.n = IF h.n < 2 THEN h.n + 1 ELSE 2]
  ELSE OtherHistory

Init ==
  /\ store = << >>
  /\ extras = EmptyBag
  /\ nextId = 1
  /\ clock = 1
  /\ heap = << >>
  /\ cv = [u \in Units |-> None]
  /\ tokens = [u \in Units |-> <<>>]
  /\ pc = [u \in Units |-> "idle"]
  /\ pend = [u \in Units |-> None]
  /\ ret = [u \in Units |-> [kind |-> "none", id |-> None]]
  /\ ended = [u \in Units |-> None]
  /\ mon = << >>
  /\ call = None
  /\ result = None

\* ------------------------------------------------------ sequence context
\* _log_sequence_context.get() of line 144: the mapping active in the unit.
ActiveMappingOutermost(u) ==
  IF tokens[u] = <<>> THEN cv[u] ELSE Some(tokens[u][1].installed)
\* (a module-level global in place of the context variable)
ActiveMappingGlobal(u) == IF IsSome(cv["main"]) THEN cv["main"] ELSE cv[u]
ActiveMapping(u) == cv[u]

\* ContextVar.reset(token): the value the variable had before the set() that
\* made the token.
ResetValueUnset(tok) == None
ResetValue(tok) == tok.old_value

\* The ids a mapping tracks.
TrackedIds(m) == UNION {Range(m[k]) : k \in Entities}

\* defaultdict(list): a new mapping object (an address no live mapping has).
NewMapping == CHOOSE o \in 1..(Cardinality(DOMAIN heap) + 1) : o \notin DOMAIN heap

\* begin_log_sequence: _log_sequence_context.set(defaultdict(list)).
\* The token keeps the old value; `installed`, `before`, `snap` and `rows`
\* record the object installed, the value active at the call, its entries and
\* the rows it tracked, for the statements about end_log_sequence.
begin_log_sequence(u) ==
  /\ pc[u] = "idle"
  /\ Len(tokens[u]) < MaxDepth
  /\ heap' = (NewMapping :> EmptyMapping) @@ heap
  /\ cv' = [cv EXCEPT ![u] = Some(NewMapping)]
  /\ tokens' = [tokens EXCEPT ![u] = Append(@,
       [old_value |-> cv[u],
        installed |-> NewMapping,
        before |-> cv[u],
        snap |-> IF IsSome(cv[u]) THEN Some(heap[Get(cv[u])]) ELSE None,
        rows |-> IF IsSome(cv[u])
                 THEN [i \in TrackedIds(heap[Get(cv[u])]) \cap DOMAIN store |-> store[i]]
                 ELSE << >>])]
  /\ ended' = [ended EXCEPT ![u] = None]
  /\ mon' = (NewMapping :> [k \in Entities |-> NoHistory]) @@ mon
  /\ UNCHANGED <<store, extras, nextId, clock, pc, pend, ret, call, result>>

\* end_log_sequence(token), for the token of the innermost open begin.  The
\* mapping installed by that begin is no longer referenced and is dropped.
end_log_sequence(u) ==
  /\ pc[u] = "idle"
  /\ tokens[u] # <<>>
  /\ LET tok == tokens[u][Len(tokens[u])] IN
       /\ cv' = [cv EXCEPT ![u] = ResetValue(tok)]
       /\ heap' = [o \in DOMAIN heap \ {tok.installed} |-> heap[o]]
       /\ mon' = [o \in DOMAIN mon \ {tok.installed} |-> mon[o]]
       /\ ended' = [ended EXCEPT ![u] = Some(tok)]
  /\ tokens' = [tokens EXCEPT ![u] = SubSeq(@, 1, Len(@) - 1)]
  /\ UNCHANGED <<store, extras, nextId, clock, pc, pend, ret, call, result>>

\* ------------------------------------------------------------ Log objects
\* Log(action=..., app_name=..., ...) of lines 121-135: the unsaved candidate.
NewLogWithoutUser(action, current_obj, previous_obj, user) ==
  [id |-> None,
   action |-> action,
   log_key |-> current_obj.key,
   timestamp |-> None,
   previous_json_blob |-> IF IsSome(previous_obj)
                          THEN serialize(Get(previous_obj)) ELSE <<>>,
   current_json_blob |-> serialize(current_obj),
   user_id |-> NoUser]
NewLog(action, current_obj, previous_obj, user) ==
  [id |-> None,
   action |-> action,
   log_key |-> current_obj.key,
   timestamp |-> None,
   previous_json_blob |-> IF IsSome(previous_obj)
                          THEN serialize(Get(previous_obj)) ELSE <<>>,
   current_json_blob |-> serialize(current_obj),
   user_id |-> user]

\* A stored row as the Log object a query returns.
LoadLog(i) ==
  [id |-> Some(i),
   action |-> store[i].action,
   log_key |-> store[i].log_key,
   timestamp |-> Some(store[i].timestamp),
   previous_json_blob |-> store[i].previous_json_blob,
   current_json_blob |-> store[i].current_json_blob,
   user_id |-> store[i].user_id]

\* The row log.save() writes for a Log object; an insert sets the timestamp.
RowOf(log, ts) ==
  [action |-> log.action,
   log_key |-> log.log_key,
   timestamp |-> IF IsSome(log.timestamp) THEN Get(log.timestamp) ELSE ts,
   previous_json_blob |-> log.previous_json_blob,
   current_json_blob |-> log.current_json_blob,
   user_id |-> log.user_id]

\* Line 138: "No changes - discard this log attempt".
NoChangesNever(previous_obj, log) == FALSE
NoChanges(previous_obj, log) ==
  IsSome(previous_obj) /\ log.previous_json_blob = log.current_json_blob

\* Lines 187 and 201: "Only squash logs with the same user_id".
SameUserAlways(prev_user_id, user_id) == TRUE
SameUser(prev_user_id, user_id) == prev_user_id = user_id

\* Line 205: the sanity check of the UPDATE walk.
SanityCheckFails(prev_log, current_log) ==
  prev_log.action = ACTION_DELETE \/ current_log.action = ACTION_CREATE

\* Lines 210-215: squash the current log onto the previous log.
SquashOntoKeepPrev(prev_log, current_log) == prev_log
SquashOnto(prev_log, current_log) ==
  LET curr_log_dict == current_obj_dict(current_log.current_json_blob)
      prev_log_dict == current_obj_dict(prev_log.current_json_blob)
      merged == [prev_log_dict EXCEPT
                   !.fields = fields_update(prev_log_dict.fields, curr_log_dict.fields)]
  IN [prev_log EXCEPT !.current_json_blob = dumps(merged)]

\* Line 225: "Squashing 2 logs may cancel each other's changes".
CancelsOut(resultant_log) ==
  resultant_log.current_json_blob = resultant_log.previous_json_blob

\* Log.objects.filter(id__in=ids).order_by("-timestamp") of line 182, over the
\* set S of ids: the stored rows among them, newest first.
RECURSIVE OrderByTimestampDesc(_)
OrderByTimestampDesc(S) ==
  IF S = {} THEN <<>>
  ELSE LET newest == CHOOSE i \in S :
                       \A j \in S : store[j].timestamp <= store[i].timestamp
       IN <<LoadLog(newest)>> \o OrderByTimestampDesc(S \ {newest})

\* (the same query without the id filter)
QueryEveryLog(prev_log_ids) == OrderByTimestampDesc(DOMAIN store)
QueryPrevLogs(prev_log_ids) ==
  OrderByTimestampDesc(Range(prev_log_ids) \cap DOMAIN store)

\* Lines 185-190: the ids of the newest prior logs with the DELETE's user_id,
\* up to the first log of another user.
\* (a walk that nullifies nothing)
DeleteWalkNone(log, prev_logs, i) == {}
RECURSIVE DeleteWalk(_, _, _)
DeleteWalk(log, prev_logs, i) ==
  IF i > Len(prev_logs) THEN {}
  ELSE IF SameUser(prev_logs[i].user_id, log.user_id)
       THEN {Get(prev_logs[i].id)} \cup DeleteWalk(log, prev_logs, i + 1)
       ELSE {}

\* Lines 197-222: the UPDATE walk from prev_logs[i] on, with current_log (which
\* is also resultant_log) and to_delete as they stand.
RECURSIVE UpdateWalk(_, _, _, _, _)
UpdateWalk(log, prev_logs, i, current_log, to_delete) ==
  IF i > Len(prev_logs)
  THEN [raised |-> FALSE, resultant_log |-> current_log, to_delete |-> to_delete]
  ELSE IF ~SameUser(prev_logs[i].user_id, log.user_id)
  THEN [raised |-> FALSE, resultant_log |-> current_log, to_delete |-> to_delete]
  ELSE IF SanityCheckFails(prev_logs[i], current_log)
  THEN [raised |-> TRUE, resultant_log |-> current_log, to_delete |-> to_delete]
  ELSE UpdateWalk(log, prev_logs, i + 1,
                  SquashOnto(prev_logs[i], current_log),
                  IF IsSome(current_log.id)
                  THEN to_delete \cup {Get(current_log.id)} ELSE to_delete)

\* updated_log_ids of line 233.
WithoutDeletedKeepsAll(prev_log_ids, to_delete) == prev_log_ids
WithoutDeleted(prev_log_ids, to_delete) ==
  SelectSeq(prev_log_ids, LAMBDA pk : pk \notin to_delete)

\* Logger.squash_log_sequence up to its storage step: what it will return
\* (resultant_log, updated_log_ids), the set it will delete (line 232), and
\* whether the sanity check raised.
squash_log_sequence(log, prev_log_ids) ==
  LET prev_logs == QueryPrevLogs(prev_log_ids)
      unchanged == [raised |-> FALSE, resultant_log |-> log, to_delete |-> {}]
      walked ==
        IF prev_logs = <<>> THEN unchanged
        ELSE IF log.action = ACTION_DELETE
        THEN [unchanged EXCEPT !.to_delete = DeleteWalk(log, prev_logs, 1)]
        ELSE IF log.action = ACTION_UPDATE
        THEN UpdateWalk(log, prev_logs, 1, log, {})
        ELSE unchanged
      cancels == prev_logs # <<>> /\ ~walked.raised /\ CancelsOut(walked.resultant_log)
      to_delete ==
        IF cancels /\ IsSome(walked.resultant_log.id)
        THEN walked.to_delete \cup {Get(walked.resultant_log.id)}
        ELSE walked.to_delete
  IN [raised |-> walked.raised,
      prev_logs |-> prev_logs,
      resultant_log |-> IF cancels THEN None ELSE Some(walked.resultant_log),
      to_delete |-> to_delete,
      updated_log_ids |-> IF to_delete # {}
                          THEN WithoutDeleted(prev_log_ids, to_delete)
                          ELSE prev_log_ids]

\* --------------------------------------------------------- Logger.create
\* Line 150: Logger.create does not catch the AssertionError raised by the
\* walk of squash_log_sequence; it leaves create at that line.
RaisesNever(sq) == FALSE
Raises(sq) == sq.raised

\* Lines 116-152 up to the storage step of the squash: build the candidate,
\* discard a no-op, look the context up, query the prior logs and walk them.
\* pre_store, pre_extras and pre_heap keep the state the call started from.
Call(u, action, current_obj, previous_obj, user, extra_fields) ==
  /\ pc[u] = "idle"
  /\ nextId <= MaxLogs
  /\ LET log == NewLog(action, current_obj, previous_obj, user)
         log_key == log.log_key
         log_sequences == ActiveMapping(u)
         prev_log_ids == IF IsSome(log_sequences)
                         THEN heap[Get(log_sequences)][log_key] ELSE <<>>
         sq == IF IsSome(log_sequences)
               THEN squash_log_sequence(log, prev_log_ids)
               ELSE [raised |-> FALSE, prev_logs |-> <<>>,
                     resultant_log |-> Some(log), to_delete |-> {},
                     updated_log_ids |-> <<>>]
         discarded == NoChanges(previous_obj, log)
         locals == [action |-> action, current_obj |-> current_obj,
                    previous_obj |-> previous_obj, user |-> user,
                    extras |-> extra_fields,
                    log |-> log, log_key |-> log_key,
                    log_sequences |-> log_sequences,
                    prev_log_ids |-> prev_log_ids,
                    prev_logs |-> sq.prev_logs,
                    raised |-> ~discarded /\ sq.raised,
                    resultant_log |-> sq.resultant_log,
                    to_delete |-> sq.to_delete,
                    updated_log_ids |-> sq.updated_log_ids,
                    pre_store |-> store, pre_extras |-> extras, pre_heap |-> heap]
     IN /\ pend' = [pend EXCEPT ![u] = Some(locals)]
        /\ mon' = IF IsSome(log_sequences) /\ ~discarded
                   THEN [mon EXCEPT ![Get(log_sequences)][log_key] =
                           Observe(@, action, user, current_obj, extra_fields, nextId)]
                   ELSE mon
        /\ IF discarded
           THEN /\ pc' = [pc EXCEPT ![u] = "done"]
                /\ ret' = [ret EXCEPT ![u] = [kind |-> "none", id |-> None]]
           ELSE IF ~IsSome(log_sequences)
           THEN /\ pc' = [pc EXCEPT ![u] = "save"]
                /\ UNCHANGED ret
           ELSE IF Raises(sq)
           THEN /\ pc' = [pc EXCEPT ![u] = "done"]
                /\ ret' = [ret EXCEPT ![u] = [kind |-> "AssertionError", id |-> None]]
           ELSE /\ pc' = [pc EXCEPT ![u] = "delete"]
                /\ UNCHANGED ret
  /\ ended' = [ended EXCEPT ![u] = None]
  /\ UNCHANGED <<store, extras, nextId, clock, heap, cv, tokens, call, result>>

\* The LogExtra rows left when the logs of to_delete go (on_delete=CASCADE).
CascadeExtras(to_delete) ==
  LET kept == {x \in DOMAIN extras : x.log \notin to_delete}
  IN [x \in kept |-> extras[x]]

\* Lines 230-233 and 152: delete the redundant logs, store the updated ids.
DeleteStep(u) ==
  /\ pc[u] = "delete"
  /\ LET l == Get(pend[u]) IN
       /\ store' = [i \in DOMAIN store \ l.to_delete |-> store[i]]
       /\ extras' = CascadeExtras(l.to_delete)
       /\ heap' = [heap EXCEPT ![Get(l.log_sequences)][l.log_key] = l.updated_log_ids]
  /\ pc' = [pc EXCEPT ![u] = "save"]
  /\ UNCHANGED <<nextId, clock, cv, tokens, pend, ret, ended, mon, call, result>>

\* Lines 96-114: LogExtra.objects.get_or_create for each extra of the logger.
create_extra_logs(log_id, current_obj, extra_fields, table) ==
  LET rows == {[log |-> log_id, field_name |-> f, field_value |-> current_obj.attrs[f]]
                 : f \in extra_fields}
  IN table (+) SetToBag({x \in rows : ~BagIn(x, table)})

\* Lines 155-165: save the log (an insert when it has no pk), create its
\* extras, append a new id to the sequence and set the context variable.
SaveStep(u) ==
  /\ pc[u] = "save"
  /\ LET l == Get(pend[u]) IN
       IF IsSome(l.resultant_log)
       THEN LET log == Get(l.resultant_log)
                created == ~IsSome(log.id)
                id == IF created THEN nextId ELSE Get(log.id)
            IN /\ store' = (id :> RowOf(log, clock)) @@ store
               /\ nextId' = IF created THEN nextId + 1 ELSE nextId
               /\ clock' = IF created THEN clock + 1 ELSE clock
               /\ extras' = create_extra_logs(id, l.current_obj, l.extras, extras)
               /\ heap' = IF created /\ IsSome(l.log_sequences)
                          THEN [heap EXCEPT ![Get(l.log_sequences)][l.log_key] = Append(@, id)]
                          ELSE heap
               /\ ret' = [ret EXCEPT ![u] = [kind |-> "log", id |-> Some(id)]]
       ELSE /\ ret' = [ret EXCEPT ![u] = [kind |-> "none", id |-> None]]
            /\ UNCHANGED <<store, nextId, clock, extras, heap>>
  /\ cv' = [cv EXCEPT ![u] = IF IsSome(Get(pend[u]).log_sequences)
                             THEN Get(pend[u]).log_sequences ELSE @]
  /\ pc' = [pc EXCEPT ![u] = "done"]
  /\ UNCHANGED <<tokens, pend, ended, mon, call, result>>

\* Line 167 (or the return of line 139, or the raise of line 207).
Return(u) ==
  /\ pc[u] = "done"
  /\ pc' = [pc EXCEPT ![u] = "idle"]
  /\ pend' = [pend EXCEPT ![u] = None]
  /\ ret' = [ret EXCEPT ![u] = [kind |-> "none", id |-> None]]
  /\ UNCHANGED <<store, extras, nextId, clock, heap, cv, tokens, ended, mon, call, result>>

\* The calls made for the model instances of `keys`: a CREATE carries no
\* previous object, an UPDATE carries the previous and the current object, a
\* DELETE carries the deleted object; and, for every action, a call whose
\* previous object equals the current one.
RequestsFor(keys) ==
  LET objs == {o \in Objects : o.key \in keys} IN
  {[action |-> ACTION_CREATE, previous_obj |-> None, current_obj |-> o] : o \in objs}
  \cup {[action |-> ACTION_UPDATE, previous_obj |-> Some(po[1]), current_obj |-> po[2]] :
          po \in {x \in objs \X objs : x[1].key = x[2].key}}
  \cup {[action |-> ACTION_DELETE, previous_obj |-> None, current_obj |-> o] : o \in objs}
  \cup {[action |-> a, previous_obj |-> Some(o), current_obj |-> o] :
          a \in actions, o \in objs}

\* The calls made for one model instance.
Requests == RequestsFor({"app-Unit-1"})

\* A call of Logger(...).create() by a user of `users` with extras of `choices`.
Record(u, users, choices) ==
  \E r \in Requests, user \in users, extra_fields \in choices :
    Call(u, r.action, r.current_obj, r.previous_obj, user, extra_fields)

\* A unit of work that opens one sequence at a time and calls the logger with
\* and without a user, without extras.
Next ==
  \E u \in Units :
    \/ tokens[u] = <<>> /\ begin_log_sequence(u)
    \/ end_log_sequence(u)
    \/ Record(u, UserIds, {{}})
    \/ DeleteStep(u)
    \/ SaveStep(u)
    \/ Return(u)

Spec == Init /\ [][Next]_vars

\* A unit of work that nests its sequences; one user, no extras.
NextNested ==
  \E u \in Units :
    \/ begin_log_sequence(u)
    \/ end_log_sequence(u)
    \/ Record(u, {"X"}, {{}})
    \/ DeleteStep(u)
    \/ SaveStep(u)
    \/ Return(u)

SpecNested == Init /\ [][NextNested]_vars

\* A unit of work that opens one sequence at a time; one user calls the logger
\* with any of the extras.
NextExtras ==
  \E u \in Units :
    \/ tokens[u] = <<>> /\ begin_log_sequence(u)
    \/ end_log_sequence(u)
    \/ Record(u, {"X"}, SUBSET Fields)
    \/ DeleteStep(u)
    \/ SaveStep(u)
    \/ Return(u)

SpecExtras == Init /\ [][NextExtras]_vars

\* A unit of work that opens one sequence at a time and records the CREATE,
\* the changing UPDATEs and the DELETE of two model instances, with and
\* without a user, without extras.
EntityRequests ==
  {r \in RequestsFor(Entities) :
     /\ r.action = ACTION_UPDATE => Get(r.previous_obj) # r.current_obj
     /\ r.action # ACTION_UPDATE => (r.previous_obj = None /\ r.current_obj.attrs["name"] = "a")}

NextEntities ==
  \E u \in Units :
    \/ tokens[u] = <<>> /\ begin_log_sequence(u)
    \/ end_log_sequence(u)
    \/ \E r \in EntityRequests, user \in UserIds :
         Call(u, r.action, r.current_obj, r.previous_obj, user, {})
    \/ DeleteStep(u)
    \/ SaveStep(u)
    \/ Return(u)

SpecEntities == Init /\ [][NextEntities]_vars

\* A unit of work that nests its sequences and records, inside and outside
\* of them, the calls of EntityRequests for two model instances; one user, no
\* extras.
NextFrame ==
  \E u \in Units :
    \/ begin_log_sequence(u)
    \/ end_log_sequence(u)
    \/ \E r \in EntityRequests :
         Call(u, r.action, r.current_obj, r.previous_obj, "X", {})
    \/ DeleteStep(u)
    \/ SaveStep(u)
    \/ Return(u)

SpecFrame == Init /\ [][NextFrame]_vars

\* Two units of work run concurrently, each in its own execution context (a
\* thread, or a task started before any begin): the context variable has one
\* value per unit, the store and the clock are shared.  Each unit opens one
\* sequence at a time, before the first row is stored, and calls the logger
\* inside it; one user, no extras.  The steps of the units interleave at the
\* storage steps of Logger.create.
ConcurrentUnits == {"main", "worker"}

InitConcurrent ==
  /\ store = << >>
  /\ extras = EmptyBag
  /\ nextId = 1
  /\ clock = 1
  /\ heap = << >>
  /\ cv = [u \in ConcurrentUnits |-> None]
  /\ tokens = [u \in ConcurrentUnits |-> <<>>]
  /\ pc = [u \in ConcurrentUnits |-> "idle"]
  /\ pend = [u \in ConcurrentUnits |-> None]
  /\ ret = [u \in ConcurrentUnits |-> [kind |-> "none", id |-> None]]
  /\ ended = [u \in ConcurrentUnits |-> None]
  /\ mon = << >>
  /\ call = None
  /\ result = None

\* The calls the concurrent units make: the CREATE, the changing UPDATEs and the
\* DELETE of one model instance.
ConcurrentRequests ==
  {r \in Requests :
     /\ r.action = ACTION_UPDATE => Get(r.previous_obj) # r.current_obj
     /\ r.action # ACTION_UPDATE => (r.previous_obj = None /\ r.current_obj.attrs["name"] = "a")}

NextConcurrent ==
  \E u \in ConcurrentUnits :
    \/ tokens[u] = <<>> /\ nextId = 1 /\ begin_log_sequence(u)
    \/ end_log_sequence(u)
    \/ /\ IsSome(cv[u])
       /\ \E r \in ConcurrentRequests :
            Call(u, r.action, r.current_obj, r.previous_obj, "X", {})
    \/ DeleteStep(u)
    \/ SaveStep(u)
    \/ Return(u)

SpecConcurrent == InitConcurrent /\ [][NextConcurrent]_vars

\* ------------------------------------------------------- manual extras
\* Extra rows in the table at most (counting copies), for the manual calls.
MaxExtras == 3

\* Logger.create_manual_extra (lines 237-252): Log.objects.get(pk=log_id),
\* which raises DoesNotExist for a missing log, then LogExtra.objects.create:
\* a plain insert of a new row.
create_manual_extra(log_id, field_name, field_value) ==
  /\ log_id \in DOMAIN store
  /\ BagCardinality(extras) < MaxExtras
  /\ extras' = extras (+) SetToBag({[log |-> log_id, field_name |-> field_name,
                                      field_value |-> field_value]})
  /\ UNCHANGED <<store, nextId, clock, heap, cv, tokens, pc, pend, ret, ended, mon, call, result>>

\* helpers.create_extra (lines 30-37): LogExtra.objects.get_or_create.
create_extra(log_id, field_name, value) ==
  /\ log_id \in DOMAIN store
  /\ BagCardinality(extras) < MaxExtras
  /\ LET row == [log |-> log_id, field_name |-> field_name, field_value |-> value]
     IN extras' = IF BagIn(row, extras) THEN extras ELSE extras (+) SetToBag({row})
  /\ UNCHANGED <<store, nextId, clock, heap, cv, tokens, pc, pend, ret, ended, mon, call, result>>

\* A unit of work that calls the logger with any of the extras, with no
\* sequence active, and attaches extras to the stored logs by hand.
NextManual ==
  \E u \in Units :
    \/ Record(u, {"X"}, SUBSET Fields)
    \/ SaveStep(u)
    \/ Return(u)
    \/ /\ pc[u] = "idle"
       /\ \E log_id \in 1..MaxLogs, field_name \in Fields, field_value \in Values :
            create_manual_extra(log_id, field_name, field_value)
    \/ /\ pc[u] = "idle"
       /\ \E log_id \in 1..MaxLogs, field_name \in Fields, value \in Values :
            create_extra(log_id, field_name, value)

SpecManual == Init /\ [][NextManual]_vars

\* ------------------------------------------------ helpers.normalize_extras
\* Manual extras in one call at most.
MaxManual == 2

\* A text is a sequence of characters (a word stands for its characters).  A
\* value is a str or an int; its text is what an f-string writes for it.
StrValue(t) == [type |-> "str", text |-> t]
IntValue(t) == [type |-> "int", text |-> t]
\* The (field, val) tuples a caller may pass as manual_extras.
ManualFields == {<<"name">>, <<"k">>, <<"k", " ", "b">>}
ManualValues == {StrValue(<<"a">>), StrValue(<<"1">>), IntValue(<<"1">>),
                 StrValue(<<"b", " ", "1">>)}
ManualPairs == [field : ManualFields, val : ManualValues]
\* The arguments of a call.  `extras` lists the attribute names in the order
\* in which the iteration over set(extras) yields them.
NormalizeCalls ==
  [obj : Objects,
   extras : {<<>>} \cup {<<f>> : f \in Fields},
   manual_extras : UNION {[1..n -> ManualPairs] : n \in 0..MaxManual}]

\* Lines 13-17: getattr along the (one-step) chain; the tuple (field_name, val).
resolved_extras(obj, extra_names) ==
  [i \in 1..Len(extra_names) |->
     [field |-> <<extra_names[i]>>, val |-> StrValue(<<obj.attrs[extra_names[i]]>>)]]

\* Line 25: the dict key f"{key} {val}".
format_key(key, val) == key \o <<" ">> \o val.text

\* Line 25: unique_extras[k] = v on a dict kept as the sequence of its items
\* in insertion order: a key already present keeps its place and gets the
\* new value.
dict_set(d, k, v) ==
  IF \E i \in 1..Len(d) : d[i].k = k
  THEN [i \in 1..Len(d) |-> IF d[i].k = k THEN [k |-> k, v |-> v] ELSE d[i]]
  ELSE Append(d, [k |-> k, v |-> v])

\* Lines 24-25: the loop over combined_extras from index i on.
RECURSIVE unique_extras(_, _, _)
unique_extras(combined_extras, i, d) ==
  IF i > Len(combined_extras) THEN d
  ELSE unique_extras(combined_extras, i + 1,
         dict_set(d, format_key(combined_extras[i].field, combined_extras[i].val),
                  combined_extras[i]))

\* helpers.normalize_extras: tuple(unique_extras.values()).
normalize_extras(obj, extra_names, manual_extras) ==
  LET combined_extras == resolved_extras(obj, extra_names) \o manual_extras
      d == unique_extras(combined_extras, 1, <<>>)
  IN [i \in 1..Len(d) |-> d[i].v]

\* A call of normalize_extras with arguments drawn from NormalizeCalls.
InitNormalize ==
  /\ store = << >>
  /\ extras = EmptyBag
  /\ nextId = 1
  /\ clock = 1
  /\ heap = << >>
  /\ cv = [u \in Units |-> None]
  /\ tokens = [u \in Units |-> <<>>]
  /\ pc = [u \in Units |-> "idle"]
  /\ pend = [u \in Units |-> None]
  /\ ret = [u \in Units |-> [kind |-> "none", id |-> None]]
  /\ ended = [u \in Units |-> None]
  /\ mon = << >>
  /\ call \in {Some(c) : c \in NormalizeCalls}
  /\ result = None

Normalize ==
  /\ IsSome(call)
  /\ result = None
  /\ result' = Some(normalize_extras(Get(call).obj, Get(call).extras,
                                      Get(call).manual_extras))
  /\ UNCHANGED <<store, extras, nextId, clock, heap, cv, tokens, pc, pend, ret, ended,
                 mon, call>>

NextNormalize == Normalize

SpecNormalize == InitNormalize /\ [][NextNormalize]_vars

\* ==================================================================== claims
\* What the statements below read of a call that is returning (pc = "done"):
\* its locals, the rows its sequence tracked for the log_key when it was made,
\* and the newest of them.
Locals(u) == Get(pend[u])
Returning(u) == pc[u] = "done"
InSequence(u) == IsSome(Locals(u).log_sequences)
SequenceIds(u) == heap[Get(Locals(u).log_sequences)][Locals(u).log_key]
TrackedAtCall(u) == Range(Locals(u).prev_log_ids) \cap DOMAIN Locals(u).pre_store
NewestAtCall(u) ==
  CHOOSE i \in TrackedAtCall(u) :
    \A j \in TrackedAtCall(u) :
      Locals(u).pre_store[j].timestamp <= Locals(u).pre_store[i].timestamp
SameState(u) ==
  IsSome(Locals(u).previous_obj) /\ Get(Locals(u).previous_obj) = Locals(u).current_obj
\* The field values a blob holds.
StateOf(blob) == current_obj_dict(blob).fields
RowsKept(u, ids) ==
  \A i \in ids : i \in DOMAIN store /\ store[i] = Locals(u).pre_store[i]
StoredAsNew(u) ==
  /\ ret[u].kind = "log"
  /\ Get(ret[u].id) \notin DOMAIN Locals(u).pre_store
  /\ DOMAIN store \ DOMAIN Locals(u).pre_store = {Get(ret[u].id)}
  /\ store[Get(ret[u].id)].action = Locals(u).action
  /\ store[Get(ret[u].id)].log_key = Locals(u).log_key
  /\ store[Get(ret[u].id)].user_id = Locals(u).user
  /\ StateOf(store[Get(ret[u].id)].current_json_blob) = Locals(u).current_obj.attrs

\* C1: in one sequence, a CREATE of a log_key followed by n >= 1 changing
\* UPDATEs by the same user, without extras, leaves exactly one row recorded for
\* the log_key: the sequence tracks it alone, it is the CREATE of that user,
\* no UPDATE is ever stored beside it (in any state, between the storage steps
\* too), and once the call is over it holds the state of the last UPDATE.
CreateThenUpdatesSquash ==
  \A u \in Units : \A e \in Entities :
    (IsSome(cv[u]) /\ mon[Get(cv[u])][e].phase = "updated") =>
      LET h == mon[Get(cv[u])][e]
          ids == heap[Get(cv[u])][e]
          recorded == {i \in DOMAIN store : i >= h.first /\ store[i].log_key = e}
      IN /\ Len(ids) = 1
         /\ recorded = {ids[1]}
         /\ store[ids[1]].action = ACTION_CREATE
         /\ store[ids[1]].user_id = h.user
         /\ pc[u] \in {"idle", "done"} =>
              /\ ret[u].kind # "AssertionError"
              /\ StateOf(store[ids[1]].current_json_blob) = Get(h.cur)

\* A second changing UPDATE after a CREATE has returned the merged CREATE.
CreateThenUpdatesReached ==
  \E u \in Units : \E e \in Entities :
    /\ IsSome(cv[u]) /\ Returning(u)
    /\ mon[Get(cv[u])][e].phase = "updated" /\ mon[Get(cv[u])][e].n = 2
    /\ Locals(u).action = ACTION_UPDATE /\ Locals(u).log_key = e
    /\ ret[u].kind = "log"
    /\ Get(ret[u].id) \in DOMAIN Locals(u).pre_store

\* The rows a DELETE by `user` is to remove: the tracked rows with no tracked
\* row of another user at or after them in time.
SameUserRun(u) ==
  {i \in TrackedAtCall(u) :
     \A j \in TrackedAtCall(u) :
       Locals(u).pre_store[j].timestamp >= Locals(u).pre_store[i].timestamp
         => Locals(u).pre_store[j].user_id = Locals(u).log.user_id}

\* C3: a DELETE recorded in a sequence deletes exactly the newest run of tracked
\* rows of its own user, up to the first row of another user; every other row
\* stays as it was, the DELETE is stored as a new row, and the sequence tracks
\* the rows left and then the DELETE.
DeleteNullifiesSameUserRun ==
  \A u \in Units :
    (Returning(u) /\ InSequence(u) /\ Locals(u).action = ACTION_DELETE /\ ~SameState(u)) =>
      /\ StoredAsNew(u)
      /\ DOMAIN Locals(u).pre_store \ DOMAIN store = SameUserRun(u)
      /\ RowsKept(u, DOMAIN Locals(u).pre_store \ SameUserRun(u))
      /\ SequenceIds(u) =
           Append(SelectSeq(Locals(u).prev_log_ids, LAMBDA i : i \notin SameUserRun(u)),
                  Get(ret[u].id))

\* A DELETE has removed a row of its user and stopped at a row of another user.
DeleteStoppedAtOtherUser ==
  \E u \in Units :
    /\ Returning(u) /\ InSequence(u) /\ Locals(u).action = ACTION_DELETE
    /\ SameUserRun(u) # {}
    /\ TrackedAtCall(u) \ SameUserRun(u) # {}
    /\ ret[u].kind = "log"

\* C4: an UPDATE whose user is not the user of the newest tracked row is stored
\* as a new row of its own; no row stored before is changed or deleted, and
\* the sequence tracks the same rows and then the new one.
ActorBoundaryHaltsSquash ==
  \A u \in Units :
    (/\ Returning(u) /\ InSequence(u) /\ Locals(u).action = ACTION_UPDATE
     /\ ~SameState(u) /\ TrackedAtCall(u) # {}
     /\ Locals(u).pre_store[NewestAtCall(u)].user_id # Locals(u).log.user_id) =>
      /\ StoredAsNew(u)
      /\ RowsKept(u, DOMAIN Locals(u).pre_store)
      /\ SequenceIds(u) = Append(Locals(u).prev_log_ids, Get(ret[u].id))

\* An UPDATE without a user has met the CREATE of a user (and the other way).
ActorBoundaryReached ==
  \E u \in Units :
    /\ Returning(u) /\ InSequence(u) /\ Locals(u).action = ACTION_UPDATE
    /\ ~SameState(u) /\ TrackedAtCall(u) # {}
    /\ Locals(u).pre_store[NewestAtCall(u)].action = ACTION_CREATE
    /\ Locals(u).pre_store[NewestAtCall(u)].user_id # Locals(u).log.user_id
    /\ Locals(u).log.user_id = NoUser
    /\ ret[u].kind = "log"

\* C6: a call whose previous object is present and equal to its current object
\* returns None and changes nothing: not the Log rows, not the LogExtra rows, not
\* the id lists of any mapping; with a sequence active or not.
NoOpElimination ==
  \A u \in Units :
    (Returning(u) /\ SameState(u)) =>
      /\ ret[u].kind = "none"
      /\ store = Locals(u).pre_store
      /\ extras = Locals(u).pre_extras
      /\ heap = Locals(u).pre_heap

\* A call with equal objects has returned where a squash was possible: in a
\* sequence that tracks a row of the same log_key and user.
NoOpReached ==
  \E u \in Units :
    /\ Returning(u) /\ SameState(u) /\ InSequence(u)
    /\ TrackedAtCall(u) # {}
    /\ Locals(u).pre_store[NewestAtCall(u)].user_id = Locals(u).log.user_id
    /\ Locals(u).action = ACTION_UPDATE

\* The (field_name, field_value) pairs of the LogExtra rows of log i in `table`,
\* and the pairs the call's extras resolve to on its current object.
ExtrasOf(table, i) ==
  {[field_name |-> x.field_name, field_value |-> x.field_value] :
     x \in {y \in DOMAIN table : y.log = i}}
CallExtras(u) ==
  {[field_name |-> f, field_value |-> Locals(u).current_obj.attrs[f]] :
     f \in Locals(u).extras}

\* C2: an UPDATE whose extras differ from the extras of the newest tracked row
\* of the same log_key and user is not merged into that row: the row stays as
\* it was and the UPDATE is stored as a second row.
ExtrasMismatchHaltsSquash ==
  \A u \in Units :
    (/\ Returning(u) /\ InSequence(u) /\ Locals(u).action = ACTION_UPDATE
     /\ ~SameState(u) /\ TrackedAtCall(u) # {}
     /\ Locals(u).pre_store[NewestAtCall(u)].action = ACTION_UPDATE
     /\ Locals(u).pre_store[NewestAtCall(u)].user_id = Locals(u).log.user_id
     /\ ExtrasOf(Locals(u).pre_extras, NewestAtCall(u)) # CallExtras(u)) =>
      /\ StoredAsNew(u)
      /\ RowsKept(u, DOMAIN Locals(u).pre_store)

\* C5: when the UPDATE squashed onto the newest tracked row (an UPDATE of the
\* same user) brings that row's current state back to its previous state, the
\* row is deleted, nothing is stored, the call returns None and the sequence
\* no longer tracks the row.
CancellationDiscards ==
  \A u \in Units :
    (/\ Returning(u) /\ InSequence(u) /\ Locals(u).action = ACTION_UPDATE
     /\ ~SameState(u) /\ TrackedAtCall(u) # {}
     /\ Locals(u).pre_store[NewestAtCall(u)].action = ACTION_UPDATE
     /\ Locals(u).pre_store[NewestAtCall(u)].user_id = Locals(u).log.user_id
     /\ Locals(u).pre_store[NewestAtCall(u)].previous_json_blob # <<>>
     /\ StateOf(Locals(u).pre_store[NewestAtCall(u)].previous_json_blob)
          = Locals(u).current_obj.attrs) =>
      /\ ret[u].kind = "none"
      /\ NewestAtCall(u) \notin DOMAIN store
      /\ DOMAIN store \subseteq DOMAIN Locals(u).pre_store
      /\ NewestAtCall(u) \notin Range(SequenceIds(u))

\* C7: while the record a call produces is not yet written (the call is
\* before its log.save()), none of the rows it supersedes is gone.
WrittenBeforeDeleted ==
  \A u \in Units :
    (pc[u] \in {"delete", "save"} /\ IsSome(Locals(u).resultant_log)) =>
      Locals(u).to_delete \subseteq DOMAIN store

\* C8: an UPDATE whose newest tracked row is a DELETE fails with the
\* AssertionError of the sanity check, whoever the users are, and stores nothing.
UpdatePastDeleteFails ==
  \A u \in Units :
    (/\ Returning(u) /\ InSequence(u) /\ Locals(u).action = ACTION_UPDATE
     /\ ~SameState(u) /\ TrackedAtCall(u) # {}
     /\ Locals(u).pre_store[NewestAtCall(u)].action = ACTION_DELETE) =>
      /\ ret[u].kind = "AssertionError"
      /\ store = Locals(u).pre_store

\* C9: while a begin/end pair is open, the mapping that was active at its
\* begin is a stranger to what happens inside: it tracks the ids it tracked at
\* the begin and no id the inner mappings track, and the rows it tracks are in
\* the store as they were at the begin (not merged into, not deleted).  The same
\* holds right after the end, so the prior logs a later call of the enclosing
\* sequence queries are those it would have queried at the begin.
NestedSequencesIsolated ==
  \A u \in Units :
    /\ \A k \in 1..Len(tokens[u]) :
         IsSome(tokens[u][k].before) =>
           LET tok == tokens[u][k]
               outer == heap[Get(tok.before)]
           IN /\ TrackedIds(outer) = TrackedIds(Get(tok.snap))
              /\ \A j \in k..Len(tokens[u]) :
                   TrackedIds(heap[tokens[u][j].installed]) \cap TrackedIds(outer) = {}
              /\ \A i \in DOMAIN tok.rows :
                   i \in DOMAIN store /\ store[i] = tok.rows[i]
    /\ (IsSome(ended[u]) /\ IsSome(Get(ended[u]).before)) =>
         LET tok == Get(ended[u])
             outer == heap[Get(tok.before)]
         IN /\ TrackedIds(outer) = TrackedIds(Get(tok.snap))
            /\ \A i \in DOMAIN tok.rows :
                 i \in DOMAIN store /\ store[i] = tok.rows[i]
            /\ \A e \in Entities :
                 Range(outer[e]) \cap DOMAIN store = Range(outer[e]) \cap DOMAIN tok.rows

\* An UPDATE made in an inner sequence is returning a new row although the
\* enclosing sequence tracks the CREATE of the same log_key by the same user.
InnerUpdateKeptApart ==
  \E u \in Units :
    /\ Len(tokens[u]) = 2 /\ Returning(u) /\ InSequence(u)
    /\ Locals(u).action = ACTION_UPDATE /\ ret[u].kind = "log"
    /\ Get(ret[u].id) \notin DOMAIN Locals(u).pre_store
    /\ \E i \in Range(heap[Get(tokens[u][2].before)][Locals(u).log_key]) :
         /\ store[i].action = ACTION_CREATE
         /\ store[i].user_id = Locals(u).log.user_id

\* C10: right after end_log_sequence(token) the context variable holds what it
\* held before the matching begin (a mapping, or nothing), and that mapping has
\* the entries it had at the begin, whatever calls were made in between.
EndRestoresPreviousMapping ==
  \A u \in Units :
    IsSome(ended[u]) =>
      /\ cv[u] = Get(ended[u]).before
      /\ IsSome(Get(ended[u]).before) =>
           /\ Get(cv[u]) \in DOMAIN heap
           /\ heap[Get(cv[u])] = Get(Get(ended[u]).snap)

\* An inner sequence has ended after storing a row, and the restored mapping
\* tracks a row of its own.
EndAfterInnerRecords ==
  \E u \in Units :
    /\ IsSome(ended[u]) /\ IsSome(Get(ended[u]).before)
    /\ TrackedIds(Get(Get(ended[u]).snap)) # {}
    /\ \E i \in DOMAIN store :
         /\ i \notin TrackedIds(heap[Get(cv[u])])
         /\ \A j \in TrackedIds(heap[Get(cv[u])]) : j < i

\* C11: two units of work that each called begin_log_sequence in their own
\* context never share a mapping object, and no id is tracked by both; and
\* every step that changes or deletes a stored row is a step of a unit whose
\* own mapping tracks that row, under every interleaving of the storage steps.
ConcurrentUnitsIsolated ==
  /\ [](\A u, v \in ConcurrentUnits :
         (u # v /\ IsSome(cv[u]) /\ IsSome(cv[v])) =>
           /\ Get(cv[u]) # Get(cv[v])
           /\ TrackedIds(heap[Get(cv[u])]) \cap TrackedIds(heap[Get(cv[v])]) = {})
  /\ [][\A i \in DOMAIN store :
          (i \notin DOMAIN store' \/ store'[i] # store[i]) =>
            \E u \in ConcurrentUnits :
              /\ pc'[u] # pc[u]
              /\ IsSome(cv[u])
              /\ i \in TrackedIds(heap[Get(cv[u])])]_vars

\* A unit's UPDATE is returning the row of its own sequence it was merged into
\* while the other unit's sequence tracks a newer row of the same log_key and
\* user, and the other unit is in the middle of a call.
ConcurrentMergeReached ==
  \E u, v \in ConcurrentUnits :
    /\ u # v /\ Returning(u) /\ InSequence(u)
    /\ Locals(u).action = ACTION_UPDATE /\ ret[u].kind = "log"
    /\ Get(ret[u].id) \in DOMAIN Locals(u).pre_store
    /\ IsSome(cv[v]) /\ pc[v] \in {"delete", "save"}
    /\ \E i \in TrackedIds(heap[Get(cv[v])]) \cap DOMAIN store :
         /\ i > Get(ret[u].id)
         /\ store[i].log_key = Locals(u).log_key
         /\ store[i].user_id = Locals(u).log.user_id

\* C12: a call made with no sequence active that is not discarded as a
\* no-change call stores its candidate as one new row (its action, log_key,
\* user and state), changes and deletes no row stored before, and tracks
\* nothing: no mapping is installed or written.  The store grows by one row.
NoContextBypassesSquash ==
  \A u \in Units :
    (Returning(u) /\ ~InSequence(u) /\ ~SameState(u)) =>
      /\ StoredAsNew(u)
      /\ RowsKept(u, DOMAIN Locals(u).pre_store)
      /\ Cardinality(DOMAIN store) = Cardinality(DOMAIN Locals(u).pre_store) + 1
      /\ cv[u] = None
      /\ heap = Locals(u).pre_heap

\* An UPDATE made with no sequence active is returning its own row although a
\* row of the same log_key and user was stored just before it.
NoContextUpdateReached ==
  \E u \in Units :
    /\ Returning(u) /\ ~InSequence(u) /\ ~SameState(u)
    /\ Locals(u).action = ACTION_UPDATE /\ ret[u].kind = "log"
    /\ Locals(u).log.user_id # NoUser
    /\ \E i \in DOMAIN Locals(u).pre_store :
         /\ i + 1 = Get(ret[u].id)
         /\ Locals(u).pre_store[i].action = ACTION_UPDATE
         /\ Locals(u).pre_store[i].log_key = Locals(u).log_key
         /\ Locals(u).pre_store[i].user_id = Locals(u).log.user_id

\* C13: the LogExtra rows are unique on (log, field_name, field_value): no
\* triple is stored twice, whatever extras were attached by hand or by calls.
ExtraRowsUnique ==
  \A x \in DOMAIN extras : extras[x] = 1

\* C14: normalize_extras returns each distinct (field, val) pair of its input
\* (the resolved extras and the manual ones) exactly once and nothing else:
\* equal pairs collapse, pairs that differ in field or in val stay apart.
NormalizeKeepsDistinctPairs ==
  IsSome(result) =>
    LET combined == resolved_extras(Get(call).obj, Get(call).extras)
                      \o Get(call).manual_extras
    IN /\ Range(Get(result)) = Range(combined)
       /\ Len(Get(result)) = Cardinality(Range(combined))

\* The rows a returning call has removed from the store and the rows it has
\* added to it.
DeletedBy(u) == DOMAIN Locals(u).pre_store \ DOMAIN store
AddedBy(u) == DOMAIN store \ DOMAIN Locals(u).pre_store

Merged(u) ==
  /\ Returning(u) /\ InSequence(u) /\ Locals(u).action = ACTION_UPDATE
  /\ ret[u].kind = "log"
  /\ Get(ret[u].id) \in DOMAIN Locals(u).pre_store

\* C16: the row an UPDATE was merged into keeps its id, action, log_key,
\* previous state, user and timestamp; its current state is its old current
\* state overlaid, field by field, with the current state of the UPDATE (the
\* UPDATE's value for every field it carries, the row's value otherwise).
\* Nothing is inserted.
MergeOverlaysCurrentState ==
  \A u \in Units :
    Merged(u) =>
      LET old == Locals(u).pre_store[Get(ret[u].id)]
          new == store[Get(ret[u].id)]
          cand == Locals(u).current_obj.attrs
          before == StateOf(old.current_json_blob)
      IN /\ new.action = old.action
         /\ new.log_key = old.log_key
         /\ new.previous_json_blob = old.previous_json_blob
         /\ new.user_id = old.user_id
         /\ new.timestamp = old.timestamp
         /\ DOMAIN StateOf(new.current_json_blob) = DOMAIN before \cup DOMAIN cand
         /\ \A f \in DOMAIN StateOf(new.current_json_blob) :
              StateOf(new.current_json_blob)[f] =
                IF f \in DOMAIN cand THEN cand[f] ELSE before[f]
         /\ AddedBy(u) = {}

\* An UPDATE to a non-ASCII value was merged into a CREATE row that held
\* another current state.
MergeOverlayReached ==
  \E u \in Units :
    /\ Merged(u)
    /\ Locals(u).pre_store[Get(ret[u].id)].action = ACTION_CREATE
    /\ StateOf(Locals(u).pre_store[Get(ret[u].id)].current_json_blob)
         # Locals(u).current_obj.attrs
    /\ Locals(u).current_obj.attrs["name"] = "e-acute"

\* The ids a call may touch: those the mapping installed by the innermost open
\* begin listed under the call's log_key when the call was made (none when no
\* sequence is open).
TouchableBy(u) ==
  IF tokens[u] = <<>> THEN {}
  ELSE Range(Locals(u).pre_heap[tokens[u][Len(tokens[u])].installed][Locals(u).log_key])

\* C17: at every point of a call, every row stored before the call that is
\* gone or changed is a row the active sequence listed under the call's
\* log_key: rows of other log_keys, rows stored before the sequence began or
\* with no sequence, and rows of enclosing sequences are as they were.
CallTouchesTrackedRowsOnly ==
  \A u \in Units :
    IsSome(pend[u]) =>
      \A i \in DOMAIN Locals(u).pre_store :
        (i \notin DOMAIN store \/ store[i] # Locals(u).pre_store[i]) =>
          i \in TouchableBy(u)

\* An UPDATE was merged into a row of its sequence while an older row of the
\* same log_key and user is in the store and tracked by no sequence.
FrameReached ==
  \E u \in Units :
    /\ Merged(u)
    /\ store[Get(ret[u].id)] # Locals(u).pre_store[Get(ret[u].id)]
    /\ \E i \in DOMAIN store :
         /\ i < Get(ret[u].id)
         /\ \A o \in DOMAIN heap : i \notin TrackedIds(heap[o])
         /\ store[i].log_key = Locals(u).log_key
         /\ store[i].user_id = Locals(u).user

\* C18: a call whose UPDATE walk raised the AssertionError of the sanity
\* check returns with that error and without any effect: the Log rows and the
\* LogExtra rows are those of before the call (nothing merged in memory is
\* written, nothing is deleted or inserted), and the mappings, the id list of
\* the log_key among them, are unchanged.
ConsistencyErrorHasNoEffect ==
  \A u \in Units :
    (Returning(u) /\ (Locals(u).raised \/ ret[u].kind = "AssertionError")) =>
      /\ ret[u].kind = "AssertionError"
      /\ store = Locals(u).pre_store
      /\ extras = Locals(u).pre_extras
      /\ heap = Locals(u).pre_heap
      /\ cv[u] = Locals(u).log_sequences

\* An UPDATE has failed on the DELETE of its user while the sequence tracks
\* an older row of another user as well.
ConsistencyErrorReached ==
  \E u \in Units :
    /\ Returning(u) /\ ret[u].kind = "AssertionError"
    /\ Cardinality(TrackedAtCall(u)) >= 2
    /\ Locals(u).pre_store[NewestAtCall(u)].action = ACTION_DELETE

\* C19: in every state of a unit that works in one sequence at a time, every
\* id list of the sequence's mapping is free of duplicates and lists only ids
\* of rows that are in the store and carry the list's log_key.
IdListsWellFormed ==
  \A o \in DOMAIN heap : \A e \in Entities :
    /\ \A a, b \in 1..Len(heap[o][e]) : heap[o][e][a] = heap[o][e][b] => a = b
    /\ \A i \in Range(heap[o][e]) :
         i \in DOMAIN store /\ store[i].log_key = e

\* A call is returning after it deleted a tracked row, and the sequence lists
\* rows under both log_keys.
IdListsAfterDeletion ==
  \E u \in Units :
    /\ Returning(u) /\ InSequence(u) /\ DeletedBy(u) # {}
    /\ \A e \in Entities : heap[Get(Locals(u).log_sequences)][e] # <<>>

\* C20: in the id list of a log_key, the row before an UPDATE or a DELETE is
\* never a row of the same user (only a CREATE follows a row of its own user).
\* So the walk of an UPDATE merges at most once, onto the newest tracked row:
\* an UPDATE deletes no stored row except the one it was merged into when the
\* merge cancels out, and a row it returns after a merge is the newest one.
NoSameUserRunBeforeUpdateOrDelete ==
  /\ \A o \in DOMAIN heap : \A e \in Entities :
       \A a \in 2..Len(heap[o][e]) :
         LET prev == store[heap[o][e][a - 1]]
             this == store[heap[o][e][a]]
         IN this.action \in {ACTION_UPDATE, ACTION_DELETE} => prev.user_id # this.user_id
  /\ \A u \in Units :
       (IsSome(pend[u]) /\ InSequence(u) /\ Locals(u).action = ACTION_UPDATE) =>
         /\ Locals(u).to_delete # {} =>
              /\ Locals(u).to_delete = {NewestAtCall(u)}
              /\ Locals(u).resultant_log = None
         /\ (IsSome(Locals(u).resultant_log) /\ IsSome(Get(Locals(u).resultant_log).id)) =>
              Get(Get(Locals(u).resultant_log).id) = NewestAtCall(u)

\* An UPDATE was merged into the newest of two tracked rows; the older row is
\* of another user.
SingleMergeStepReached ==
  \E u \in Units :
    /\ Merged(u)
    /\ Len(SequenceIds(u)) = 2
    /\ Get(ret[u].id) = SequenceIds(u)[2]
    /\ store[SequenceIds(u)[1]].user_id # Locals(u).user

====
